---- MODULE Spec2Model ----
(***************************************************************************)
(* Catalog synchronisation of the LiveRamp marketplace into the local      *)
(* SQLite store, as implemented by                                         *)
(*   - LiveRampAdapter.sync_all_segments   (src/adapters/liveramp.py)      *)
(*   - LiveRampCatalogSync.run_sync / main (src/sync_liveramp_catalog.py)  *)
(* together with the read paths of the adapter.                            *)
(*                                                                         *)
(* Records are identified by their segment id.  Time is counted in hours.  *)
(* The page size and the batch size are scaled down (the source uses 100   *)
(* and 1000); the relation limit <= BATCH_SIZE of the source is kept.      *)
(***************************************************************************)
EXTENDS Integers, Sequences, FiniteSets, TLC

\* ------------------------------------------------------------------ bounds
\* page size requested from the remote API (source: limit = 100)
limit == 2
\* records per insert batch (source: BATCH_SIZE = 1000)
BATCH_SIZE == 3
\* rows a sync log may hold before no further run is started
MaxRuns == 2
\* the clock stops advancing here (hours)
MaxTime == 36
\* hours that pass in one clock step
TickStep == 12

\* entries a subscriptions list of a raw record may hold
MaxSubs == 2
\* items of the free text of a search
MaxQuery == 3

\* ------------------------------------------------------- program constants
max_age_hours == 24

\* the sync workers: OS processes running the script, or server threads
\* calling the adapter
Procs == {1, 2}

NULL == -1
NoProc == 0

\* remote catalogs the marketplace may hold: the records in cursor order and
\* whether the server hands out a cursor after every full page (its last
\* page is then empty).  <<1, 2, 2, 3>> lists one record on two pages.
Remotes ==
    { [cat |-> <<>>,              eager |-> FALSE],
      [cat |-> <<1, 2, 3, 4, 5>>, eager |-> FALSE],
      [cat |-> <<1, 2, 3, 4>>,    eager |-> TRUE],
      [cat |-> <<1, 2, 2, 3>>,    eager |-> FALSE] }

\* Retry-After header of a 429 response: absent, a number of seconds,
\* or an HTTP date
RetryAfterHeaders == {"absent", "7", "Wed, 21 Oct 2015 07:28:00 GMT"}

VARIABLES
    \* --- the SQLite database file
    segments,               \* adapter table `segments`, committed rows
    segments_fts,           \* adapter FTS index, committed: <<rowid, terms>>
    liveramp_segments,      \* script table `liveramp_segments`, committed
    sync_status,            \* adapter sync log, committed
    liveramp_sync_status,   \* script sync log, committed
    lock,                   \* holder of the write lock, NoProc if free
    tx,                     \* uncommitted working copy of the lock holder
    wal,                    \* journal_mode of the file is WAL
    \* --- environment
    entry,                  \* the deployed sync entry point
    remote,                 \* the marketplace catalog
    now,                    \* wall clock, hours
    \* --- one sync worker
    pc,                     \* position of the worker
    force,                  \* force_refresh / force argument of the run
    auth_token,             \* "none", "valid", "expired"
    after_cursor,           \* pagination cursor, 0 is None
    page,                   \* page counter
    batch_segments,         \* adapter: records fetched and not yet inserted
    total_processed,        \* adapter: records handed to the store
    all_segments,           \* script: records fetched so far
    last,                   \* outcome of the latest page request
    exc,                    \* script: the exception on its way to the handler
    tx_end,                 \* how the worker's transaction ended
    result,                 \* outcome of the worker's latest call
    \* --- a reader of the adapter tables
    reader_pc,
    observed,
    \* --- one raw record of the catalog on its way through the extraction
    raw,                    \* the record as the API delivered it
    out,                    \* what the extraction made of it
    \* --- a search of the cached catalog
    query,                  \* the free text and the filter of the request
    found                   \* the answer of the search

dbVars     == <<segments, segments_fts, liveramp_segments, sync_status,
                liveramp_sync_status, lock, tx, wal>>
envVars    == <<entry, remote, now>>
fetchVars  == <<after_cursor, page, batch_segments, total_processed,
                all_segments, last, exc>>
procVars   == <<pc, force, auth_token, tx_end, result>>
readerVars == <<reader_pc, observed>>
recVars    == <<raw, out, query, found>>
vars == <<dbVars, envVars, fetchVars, procVars, readerVars, recVars>>

\* ----------------------------------------------------------------- helpers
Range(s) == {s[i] : i \in 1..Len(s)}

Min(a, b) == IF a < b THEN a ELSE b

EmptyTx == [segments |-> <<>>, fts |-> {}]

\* the index entries of the rows lo..Len(table) of a table: the rowid of a
\* row (its position: `id INTEGER PRIMARY KEY` counts from 1 in an emptied
\* table) and the terms of the row, which stand with its segment id
IndexOf(table, lo) == {<<i, table[i]>> : i \in lo..Len(table)}

\* DELETE FROM segments_fts, an FTS5 table with content=segments: the scan of
\* the statement reads the rows of the content table, so it removes the
\* entries of the rows `segments` still holds and no other entry
DeleteFts(index, content) == index \ IndexOf(content, 1)

\* a remote API whose pages lose the record that follows the cursor
RemotePageSkipping(r, cursor) ==
    LET end == Min(cursor + limit, Len(r.cat))
        segs == SubSeq(r.cat, cursor + 2, end)
    IN [segs  |-> segs,
        after |-> IF end < Len(r.cat) THEN end ELSE 0]

\* One page of the remote API: at most `limit` records after the cursor and
\* the cursor of the next page (0 when absent).
RemotePage(r, cursor) ==
    LET end == Min(cursor + limit, Len(r.cat))
        segs == SubSeq(r.cat, cursor + 1, end)
    IN [segs  |-> segs,
        after |-> IF end < Len(r.cat) \/ (r.eager /\ Len(segs) = limit)
                  THEN end ELSE 0]

\* INSERT into a table without a constraint on segment_id
InsertRowsNoUnique(table, rows) == [table |-> table \o rows, ok |-> TRUE]

\* INSERT of rows one after the other into a table whose segment_id is
\* UNIQUE: the first duplicate raises and leaves the earlier rows in place.
RECURSIVE InsertRows(_, _)
InsertRows(table, rows) ==
    IF rows = <<>> THEN [table |-> table, ok |-> TRUE]
    ELSE IF Head(rows) \in Range(table) THEN [table |-> table, ok |-> FALSE]
    ELSE InsertRows(Append(table, Head(rows)), Tail(rows))

\* a store that opens a transaction of its own for every batch: the rows of
\* the batches before are not in it
StoreSegmentsOwnTx(t, rows, k) ==
    LET r == InsertRows(<<>>, SubSeq(rows, 1, k))
    IN [tx |-> [segments |-> r.table, fts |-> IndexOf(r.table, 1)],
        ok |-> r.ok /\ k = Len(rows)]

\* executemany of a batch inside the open transaction; the trigger
\* segments_ai adds the index entry of every inserted row.  k < Len(rows)
\* is a storage error raised after k rows.
StoreSegmentsIncremental(t, rows, k) ==
    LET r == InsertRows(t.segments, SubSeq(rows, 1, k))
    IN [tx |-> [segments |-> r.table,
                fts |-> t.fts \cup IndexOf(r.table, Len(t.segments) + 1)],
        ok |-> r.ok /\ k = Len(rows)]

\* str.isdigit and int() on the header values above
IsDigit(h) == h \in {"5", "7"}
ToInt(h) == IF h = "7" THEN 7 ELSE 5

\* wait time of the adapter on a 429: the header, 5 if absent or no number
AdapterWaitTime(h) ==
    LET retry_after == IF h = "absent" THEN "5" ELSE h
    IN IF IsDigit(retry_after) THEN ToInt(retry_after) ELSE 5

\* wait time of the script on a 429: int() of the header; NULL is ValueError
ScriptWaitTime(h) ==
    IF h = "absent" THEN 60
    ELSE IF IsDigit(h) THEN ToInt(h)
    ELSE NULL

\* a reader cannot read while the file is exclusively locked and the
\* journal is not a WAL
ReadBlocked == lock # NoProc /\ ~wal

\* a freshness check that finds every cache stale
IsCacheNeverFresh == FALSE

\* LiveRampAdapter._is_cache_fresh
IsCacheFresh ==
    IF sync_status = <<>> THEN FALSE
    ELSE now - sync_status[Len(sync_status)].last_sync < max_age_hours

\* LiveRampCatalogSync.needs_sync
SuccessRows == {i \in 1..Len(liveramp_sync_status) :
                    liveramp_sync_status[i].status = "success"}

NeedsSync ==
    IF SuccessRows = {} THEN TRUE
    ELSE LET i == CHOOSE j \in SuccessRows : \A m \in SuccessRows : m <= j
             row == liveramp_sync_status[i]
         IN IF row.sync_completed = NULL THEN TRUE
            ELSE now - row.sync_completed > max_age_hours

\* what the worker knows of its latest page request: the status of the answer
\* ("timeout" and "conn_error" when requests.get raised instead of answering),
\* the number of records in its data.segments and its pagination.after
Resp(status, n, after) == [status |-> status, n |-> n, after |-> after]
NoResponse == Resp("none", 0, 0)

\* what a reader holds: ok is FALSE when the read raised, id is the
\* segment_id asked for (NULL for the whole table), rows the rows returned
NoRead == [ok |-> TRUE, id |-> NULL, rows |-> <<>>]
ReadFailed(id) == [ok |-> FALSE, id |-> id, rows |-> <<>>]

\* SELECT ... WHERE segment_id = ?
WhereId(table, id) == SelectSeq(table, LAMBDA x : x = id)

\* worker-local variables of a run that has not fetched anything yet
ResetFetch(p) ==
    /\ after_cursor' = [after_cursor EXCEPT ![p] = 0]
    /\ page' = [page EXCEPT ![p] = 0]
    /\ batch_segments' = [batch_segments EXCEPT ![p] = <<>>]
    /\ total_processed' = [total_processed EXCEPT ![p] = 0]
    /\ all_segments' = [all_segments EXCEPT ![p] = <<>>]
    /\ last' = [last EXCEPT ![p] = NoResponse]
    /\ exc' = [exc EXCEPT ![p] = ""]

\* the call returns or raises: its arguments and locals go out of scope
EndRun(p, res) ==
    /\ pc' = [pc EXCEPT ![p] = "idle"]
    /\ result' = [result EXCEPT ![p] = res]
    /\ force' = [force EXCEPT ![p] = FALSE]
    /\ ResetFetch(p)

\* ----------------------------------------------------- the search requests
\* A free text is a sequence of items separated by blanks.  An item is a word
\* of the catalog, an operator keyword of the FTS5 query syntax, or one of the
\* characters the sanitizer of search_segments deals with.
Words == {"w", "v"}
Keywords == {"AND", "OR", "NOT"}
Items == Words \cup Keywords \cup {"\"", "'", "*"}

\* the free texts of at most n items
RECURSIVE Texts(_)
Texts(n) ==
    IF n = 0 THEN {<<>>}
    ELSE Texts(n - 1) \cup
         {Append(t, c) : t \in {x \in Texts(n - 1) : Len(x) = n - 1},
                         c \in Items}

\* a request: the free text and the filter min_coverage_percentage, in
\* tenths of a percent (NULL: no filter)
Queries == [text : Texts(MaxQuery), min_coverage : {NULL, 100}]

\* the catalog the searches run on: the records 1 and 2 carry the same
\* indexed text and differ in reach, record 3 carries another word
TextOf(id) == IF id = 3 THEN "v" ELSE "w"
ReachOf(id) == IF id = 1 THEN 1000000 ELSE IF id = 3 THEN 200000000 ELSE 500

\* ------------------------------------------------- raw records of the API
\* A raw record is the JSON object of one segment.  Of its optional blocks
\* the model keeps the shape: whether the key is there, whether the value has
\* the expected type, and the numbers the extraction reads.  NULL stands for
\* None: the key is absent or its value is null.

\* one entry of `subscriptions`: the entry is a dict or a string; its `price`
\* is absent, null, a number or a dict with the keys `cpm` and `value`
SubEntries ==
    {[kind |-> "str", price |-> "absent", cpm |-> NULL, value |-> NULL]}
    \cup {[kind |-> "dict", price |-> pr, cpm |-> NULL, value |-> NULL] :
             pr \in {"absent", "null", "num"}}
    \cup {[kind |-> "dict", price |-> "dict", cpm |-> c, value |-> v] :
             c \in {NULL, 0, 3}, v \in {NULL, 4}}

\* the lists of at most n entries
RECURSIVE SubLists(_)
SubLists(n) ==
    IF n = 0 THEN {<<>>}
    ELSE SubLists(n - 1) \cup
         {Append(l, e) : l \in {x \in SubLists(n - 1) : Len(x) = n - 1},
                         e \in SubEntries}

\* the `subscriptions` block: absent, null, a number, or a list
Subscriptions ==
    {[kind |-> k, items |-> <<>>] : k \in {"absent", "null", "num"}}
    \cup {[kind |-> "list", items |-> l] : l \in SubLists(MaxSubs)}

\* the `reach` block: absent, null, a number, or a dict whose `inputRecords`
\* is absent, null, a number or a dict with a `count` (None, a number, or a
\* numeric string)
Reaches ==
    {[kind |-> k, input |-> "absent", ctype |-> "none", count |-> NULL] :
        k \in {"absent", "null", "num"}}
    \cup {[kind |-> "dict", input |-> i, ctype |-> "none", count |-> NULL] :
             i \in {"absent", "null", "num", "dict"}}
    \cup {[kind |-> "dict", input |-> "dict", ctype |-> "num", count |-> c] :
             c \in {0, 500, 1000000, 50000000, 200000000}}
    \cup {[kind |-> "dict", input |-> "dict", ctype |-> "str", count |-> 500]}

\* the `categories` block: absent, null, or a list of items; an item is a
\* dict with a name, a dict without the key, a dict whose name is null, or a
\* string
Categories ==
    {[kind |-> k, items |-> <<>>] : k \in {"absent", "null"}}
    \cup {[kind |-> "list", items |-> l] :
             l \in {<<>>, <<"named">>, <<"unnamed">>, <<"nullname">>,
                    <<"str">>, <<"named", "str">>}}

RawRecords ==
    [subscriptions : Subscriptions, reach : Reaches, categories : Categories]

\* a record with none of the optional blocks
BlankRecord ==
    [subscriptions |-> [kind |-> "absent", items |-> <<>>],
     reach |-> [kind |-> "absent", input |-> "absent", ctype |-> "none",
                count |-> NULL],
     categories |-> [kind |-> "absent", items |-> <<>>]]

\* ------------------------------------------------------------------- Init
\* a new database file, no worker running
InitStore ==
    /\ segments = <<>>
    /\ segments_fts = {}
    /\ liveramp_segments = <<>>
    /\ sync_status = <<>>
    /\ liveramp_sync_status = <<>>
    /\ lock = NoProc
    /\ tx = EmptyTx
    /\ wal \in BOOLEAN
    /\ now = 0
    /\ pc = [p \in Procs |-> "idle"]
    /\ force = [p \in Procs |-> FALSE]
    /\ auth_token = [p \in Procs |-> "none"]
    /\ after_cursor = [p \in Procs |-> 0]
    /\ page = [p \in Procs |-> 0]
    /\ batch_segments = [p \in Procs |-> <<>>]
    /\ total_processed = [p \in Procs |-> 0]
    /\ all_segments = [p \in Procs |-> <<>>]
    /\ last = [p \in Procs |-> NoResponse]
    /\ exc = [p \in Procs |-> ""]
    /\ tx_end = [p \in Procs |-> "none"]
    /\ result = [p \in Procs |-> "none"]
    /\ reader_pc = "idle"
    /\ observed = NoRead

\* no search was asked for
NoQuery == [text |-> <<>>, min_coverage |-> NULL]
NoFound == [kind |-> "none", rows |-> <<>>]

\* no record has been extracted
NoOut ==
    [kind |-> "none", has_pricing |-> FALSE, cpm |-> NULL, is_free |-> FALSE,
     reach |-> NULL, ncat |-> 0, coverage |-> NULL, has_coverage |-> FALSE]

Init ==
    /\ InitStore
    /\ entry \in {"adapter", "script"}
    /\ remote \in Remotes
    /\ raw = BlankRecord
    /\ out = NoOut
    /\ query = NoQuery
    /\ found = NoFound

\* ------------------------------------------------ environment: time, token
\* A clock step is hours long and a run takes minutes: the clock advances
\* between runs.
Tick ==
    /\ now + TickStep <= MaxTime
    /\ \A p \in Procs : pc[p] = "idle"
    /\ now' = now + TickStep
    /\ UNCHANGED <<dbVars, recVars, entry, remote, fetchVars, procVars, readerVars>>

\* the cached token passes its expiry time (_is_token_valid turns false)
TokenExpire(p) ==
    /\ auth_token[p] = "valid"
    /\ pc[p] # "idle" \/ entry = "adapter"
    /\ auth_token' = [auth_token EXCEPT ![p] = "expired"]
    /\ UNCHANGED <<dbVars, envVars, recVars, fetchVars, readerVars,
                   pc, force, tx_end, result>>

\* -------------------------------- LiveRampAdapter.sync_all_segments
\* a caller invokes sync_all_segments(force_refresh)
A_Call(p) ==
    /\ entry = "adapter"
    /\ pc[p] = "idle"
    /\ Len(sync_status) < MaxRuns
    /\ \E f \in BOOLEAN : force' = [force EXCEPT ![p] = f]
    /\ pc' = [pc EXCEPT ![p] = "a_called"]
    /\ result' = [result EXCEPT ![p] = "running"]
    /\ tx_end' = [tx_end EXCEPT ![p] = "none"]
    /\ UNCHANGED <<dbVars, envVars, recVars, readerVars, fetchVars, auth_token>>

\* entry: freshness check, then authenticate()
A_Sync(p) ==
    /\ pc[p] = "a_called"
    /\ \E auth_ok \in BOOLEAN :
        IF ~force[p] /\ ReadBlocked
        THEN \* _is_cache_fresh cannot read the log: database is locked
             /\ EndRun(p, "raised")
             /\ UNCHANGED auth_token
        ELSE IF ~force[p] /\ IsCacheFresh
        THEN \* return self._get_sync_status()
             /\ EndRun(p, "skipped")
             /\ UNCHANGED auth_token
        ELSE IF auth_token[p] # "valid" /\ ~auth_ok
        THEN \* authenticate() raises
             /\ EndRun(p, "raised")
             /\ UNCHANGED auth_token
        ELSE /\ auth_token' = [auth_token EXCEPT ![p] = "valid"]
             /\ pc' = [pc EXCEPT ![p] = "a_begin"]
             /\ UNCHANGED <<force, result, fetchVars>>
    /\ UNCHANGED <<dbVars, envVars, recVars, readerVars, tx_end>>

\* BEGIN EXCLUSIVE TRANSACTION, DELETE FROM segments, DELETE FROM segments_fts
A_Begin(p) ==
    /\ pc[p] = "a_begin"
    /\ IF lock = NoProc
       THEN /\ lock' = p
            /\ tx' = [segments |-> <<>>, fts |-> DeleteFts(segments_fts, <<>>)]
            /\ pc' = [pc EXCEPT ![p] = "a_loop"]
            /\ UNCHANGED <<tx_end, result, force, fetchVars>>
       ELSE \* database is locked: except -> rollback -> raise
            /\ EndRun(p, "raised")
            /\ tx_end' = [tx_end EXCEPT ![p] = "rollback"]
            /\ UNCHANGED <<lock, tx>>
    /\ UNCHANGED <<segments, segments_fts, liveramp_segments, sync_status,
                   liveramp_sync_status, wal, envVars, recVars, readerVars,
                   auth_token>>

\* the statuses other than 200 and 429 a page request is answered with
ErrorStatuses == {"401", "500"}

\* what the adapter does with a 429: always `continue`
AdapterOn429(h) == IF AdapterWaitTime(h) >= 0 THEN "retry" ELSE "raise"

\* a loop that goes on without a cursor
LoopNeverEnds(after) == FALSE

\* the loop ends on a page without a next cursor (`if not after_cursor`)
LoopEnds(after) == after = 0

\* leave the loop of the adapter with `break`; e is the exception the inner
\* handler caught, "" after a break outside of it
A_Break(p, r, e) ==
    /\ last' = [last EXCEPT ![p] = r]
    /\ exc' = [exc EXCEPT ![p] = e]
    /\ pc' = [pc EXCEPT ![p] = "a_finish"]

\* the end of an iteration that stored its page: break without a cursor,
\* page += 1 with one
A_NextPage(p, r) ==
    IF LoopEnds(r.after)
    THEN A_Break(p, r, "") /\ UNCHANGED page
    ELSE /\ page' = [page EXCEPT ![p] = @ + 1]
         /\ last' = [last EXCEPT ![p] = r]
         /\ UNCHANGED <<pc, exc>>

\* one iteration of the `while True` loop: a page request and its handling
A_FetchPage(p) ==
    /\ pc[p] = "a_loop"
    /\ \/ \* 429: sleep and request the same page again
          \E h \in RetryAfterHeaders :
            /\ AdapterOn429(h) = "retry"
            /\ last' = [last EXCEPT ![p] = Resp("429", 0, 0)]
            /\ UNCHANGED <<pc, exc, tx, after_cursor, page, batch_segments,
                           total_processed>>
       \/ \* any other status than 200: break
          \E s \in ErrorStatuses :
            /\ A_Break(p, Resp(s, 0, 0), "")
            /\ UNCHANGED <<tx, after_cursor, page, batch_segments,
                           total_processed>>
       \/ \* requests.get or response.json() raises: break
          /\ A_Break(p, Resp("conn_error", 0, 0), "ConnectionError")
          /\ UNCHANGED <<tx, after_cursor, page, batch_segments,
                         total_processed>>
       \/ \* 200
          LET pg == RemotePage(remote, after_cursor[p])
              r == Resp("200", Len(pg.segs), pg.after)
              ext == batch_segments[p] \o pg.segs
          IN IF pg.segs = <<>>
             THEN /\ A_Break(p, r, "")
                  /\ UNCHANGED <<tx, after_cursor, page, batch_segments,
                                 total_processed>>
             ELSE IF Len(ext) >= BATCH_SIZE
             THEN \E k \in 0..BATCH_SIZE :
                    LET st == StoreSegmentsIncremental(tx, SubSeq(ext, 1, BATCH_SIZE), k)
                    IN /\ tx' = st.tx
                       /\ IF ~st.ok
                          THEN \* raised inside the inner try: break
                               /\ batch_segments' = [batch_segments EXCEPT ![p] = ext]
                               /\ A_Break(p, r, "StoreError")
                               /\ UNCHANGED <<after_cursor, page, total_processed>>
                          ELSE /\ batch_segments' = [batch_segments EXCEPT ![p] =
                                       SubSeq(ext, BATCH_SIZE + 1, Len(ext))]
                               /\ total_processed' = [total_processed EXCEPT ![p] = @ + BATCH_SIZE]
                               /\ after_cursor' = [after_cursor EXCEPT ![p] = pg.after]
                               /\ A_NextPage(p, r)
             ELSE /\ batch_segments' = [batch_segments EXCEPT ![p] = ext]
                  /\ after_cursor' = [after_cursor EXCEPT ![p] = pg.after]
                  /\ UNCHANGED <<tx, total_processed>>
                  /\ A_NextPage(p, r)
    /\ UNCHANGED <<segments, segments_fts, liveramp_segments, sync_status,
                   liveramp_sync_status, lock, wal, envVars, recVars, readerVars,
                   all_segments, force, auth_token, tx_end, result>>

\* after the loop: final batch, then conn.commit(); an exception here goes
\* to the outer handler: conn.rollback() and re-raise
A_Finish(p) ==
    /\ pc[p] = "a_finish"
    /\ \E k \in 0..Len(batch_segments[p]) :
        LET st == StoreSegmentsIncremental(tx, batch_segments[p], k)
        IN IF st.ok
           THEN /\ segments' = st.tx.segments
                /\ segments_fts' = st.tx.fts
                /\ total_processed' = [total_processed EXCEPT ![p] = @ + Len(batch_segments[p])]
                /\ batch_segments' = [batch_segments EXCEPT ![p] = <<>>]
                /\ tx_end' = [tx_end EXCEPT ![p] = "commit"]
                /\ pc' = [pc EXCEPT ![p] = "a_record"]
                /\ UNCHANGED <<result, force, after_cursor, page,
                               all_segments, last, exc>>
           ELSE /\ tx_end' = [tx_end EXCEPT ![p] = "rollback"]
                /\ EndRun(p, "raised")
                /\ UNCHANGED <<segments, segments_fts>>
    /\ lock' = NoProc
    /\ tx' = EmptyTx
    /\ UNCHANGED <<liveramp_segments, sync_status, liveramp_sync_status, wal,
                   envVars, recVars, readerVars, auth_token>>

\* an adapter that records the runs it committed as failed
AdapterRunStatusFailed(l) == "failed"

\* the status the adapter records for a run that reached the commit
AdapterRunStatus(l) == "success"

\* LiveRampAdapter._record_sync_status
A_Record(p) ==
    /\ pc[p] = "a_record"
    /\ IF lock = NoProc
       THEN /\ sync_status' = Append(sync_status,
                [last_sync |-> now,
                 total_segments |-> total_processed[p],
                 status |-> AdapterRunStatus(last[p])])
            /\ EndRun(p, "success")
       ELSE \* database is locked
            /\ EndRun(p, "raised")
            /\ UNCHANGED sync_status
    /\ tx_end' = [tx_end EXCEPT ![p] = "none"]
    /\ UNCHANGED <<segments, segments_fts, liveramp_segments,
                   liveramp_sync_status, lock, tx, wal, envVars, recVars,
                   readerVars, auth_token>>

\* KeyboardInterrupt inside sync_all_segments: it passes both `except
\* Exception` clauses; `finally: conn.close()` drops the open transaction
\* and the interrupt leaves the call as an exception.  Nothing is written to
\* sync_status.  The interrupt arrives before the commit.
A_Interrupt(p) ==
    /\ pc[p] \in {"a_begin", "a_loop", "a_finish"}
    /\ IF lock = p
       THEN /\ lock' = NoProc
            /\ tx' = EmptyTx
            /\ tx_end' = [tx_end EXCEPT ![p] = "rollback"]
       ELSE UNCHANGED <<lock, tx, tx_end>>
    /\ EndRun(p, "raised")
    /\ UNCHANGED <<segments, segments_fts, liveramp_segments, sync_status,
                   liveramp_sync_status, wal, envVars, recVars, readerVars,
                   auth_token>>

\* ------------------------------------------------- readers of the adapter
\* a reader that saw the uncommitted rows of the writer
ReadViewDirty == IF lock # NoProc THEN tx.segments ELSE segments

\* what a connection other than the writer's sees of `segments`
ReadView == segments

\* get_segments (no query): SELECT raw_data FROM segments
R_GetSegments ==
    /\ entry = "adapter"
    /\ reader_pc = "idle"
    /\ reader_pc' = "got"
    /\ observed' = IF ReadBlocked THEN ReadFailed(NULL)
                   ELSE [ok |-> TRUE, id |-> NULL, rows |-> ReadView]
    /\ UNCHANGED <<dbVars, envVars, recVars, fetchVars, procVars>>

\* get_segment_by_id: SELECT * FROM segments WHERE segment_id = ?
R_GetSegmentById ==
    /\ entry = "adapter"
    /\ reader_pc = "idle"
    /\ reader_pc' = "got"
    /\ \E id \in Range(segments) \cup Range(tx.segments) \cup {0} :
        observed' = IF ReadBlocked THEN ReadFailed(id)
                    ELSE [ok |-> TRUE, id |-> id, rows |-> WhereId(ReadView, id)]
    /\ UNCHANGED <<dbVars, envVars, recVars, fetchVars, procVars>>

R_Return ==
    /\ reader_pc = "got"
    /\ reader_pc' = "idle"
    /\ observed' = NoRead
    /\ UNCHANGED <<dbVars, envVars, recVars, fetchVars, procVars>>


\* ---------------------------- LiveRampCatalogSync (sync_liveramp_catalog.py)
\* UPDATE liveramp_sync_status SET ... WHERE id = (SELECT MAX(id) ...)
UpdateLastRow(log, status, total, error) ==
    IF log = <<>> THEN log
    ELSE [log EXCEPT ![Len(log)] =
            [@ EXCEPT !.sync_completed = now, !.total_segments = total,
                      !.status = status, !.error_message = error]]

\* update_sync_status('started'): INSERT a row with status in_progress.
\* The column sync_started is written here and read nowhere; rows carry
\* the columns the program reads back.
StartedRow ==
    [sync_completed |-> NULL, total_segments |-> NULL,
     status |-> "in_progress", error_message |-> ""]

\* the locals of fetch_all_segments and the exception in flight
S_Locals(p, cursor, pg, segs, outcome, e) ==
    /\ after_cursor' = [after_cursor EXCEPT ![p] = cursor]
    /\ page' = [page EXCEPT ![p] = pg]
    /\ all_segments' = [all_segments EXCEPT ![p] = segs]
    /\ last' = [last EXCEPT ![p] = outcome]
    /\ exc' = [exc EXCEPT ![p] = e]
    /\ UNCHANGED <<batch_segments, total_processed>>

\* an exception leaves the try block of run_sync towards its handler; the
\* locals of fetch_all_segments go out of scope
S_Raise(p, outcome, e) ==
    /\ pc' = [pc EXCEPT ![p] = "s_except"]
    /\ S_Locals(p, 0, 0, <<>>, outcome, e)

\* main() starts a new process and calls run_sync(force=args.full)
S_Main(p) ==
    /\ entry = "script"
    /\ pc[p] = "idle"
    /\ Len(liveramp_sync_status) < MaxRuns
    /\ \E f \in BOOLEAN : force' = [force EXCEPT ![p] = f]
    /\ pc' = [pc EXCEPT ![p] = "s_called"]
    /\ result' = [result EXCEPT ![p] = "running"]
    /\ auth_token' = [auth_token EXCEPT ![p] = "none"]
    /\ tx_end' = [tx_end EXCEPT ![p] = "none"]
    /\ UNCHANGED <<dbVars, envVars, recVars, readerVars, fetchVars>>

\* run_sync: the freshness check
S_RunSync(p) ==
    /\ pc[p] = "s_called"
    /\ IF ~force[p] /\ ReadBlocked
       THEN \* needs_sync cannot read the log: database is locked
            EndRun(p, "raised")
       ELSE IF ~force[p] /\ ~NeedsSync
       THEN \* "Catalog is up to date": return
            EndRun(p, "skipped")
       ELSE /\ pc' = [pc EXCEPT ![p] = "s_start"]
            /\ UNCHANGED <<force, result, fetchVars>>
    /\ UNCHANGED <<dbVars, envVars, recVars, readerVars, auth_token, tx_end>>

\* run_sync: self.update_sync_status('started')
S_MarkStarted(p) ==
    /\ pc[p] = "s_start"
    /\ IF lock = NoProc
       THEN /\ liveramp_sync_status' = Append(liveramp_sync_status, StartedRow)
            /\ pc' = [pc EXCEPT ![p] = "s_auth"]
            /\ UNCHANGED fetchVars
       ELSE \* database is locked
            /\ S_Raise(p, last[p], "database is locked")
            /\ UNCHANGED liveramp_sync_status
    /\ UNCHANGED <<segments, segments_fts, liveramp_segments, sync_status,
                   lock, tx, wal, envVars, recVars, readerVars,
                   force, auth_token, tx_end, result>>

\* fetch_all_segments, before the loop: authenticate unless the token is valid
S_FetchInit(p) ==
    /\ pc[p] = "s_auth"
    /\ \E auth_ok \in BOOLEAN :
        IF auth_token[p] = "valid" \/ auth_ok
        THEN /\ auth_token' = [auth_token EXCEPT ![p] = "valid"]
             /\ pc' = [pc EXCEPT ![p] = "s_loop"]
             /\ UNCHANGED fetchVars
        ELSE /\ S_Raise(p, last[p], "Authentication failed")
             /\ UNCHANGED auth_token
    /\ UNCHANGED <<dbVars, envVars, recVars, readerVars, force, tx_end, result>>

\* what the script does with a 429 whose Retry-After header is h
ScriptOn429(h) == IF ScriptWaitTime(h) # NULL THEN "retry" ELSE "raise"

\* `if page > 0: break` else raise, in both error branches of the script
S_BreakOrRaise(p, outcome, e) ==
    IF page[p] > 0
    THEN /\ pc' = [pc EXCEPT ![p] = "s_check"]
         /\ S_Locals(p, after_cursor[p], page[p], all_segments[p], outcome, e)
    ELSE S_Raise(p, outcome, e)

\* `continue`: the loop goes on with the same cursor and page
S_Continue(p, outcome) ==
    /\ S_Locals(p, after_cursor[p], page[p], all_segments[p], outcome, exc[p])
    /\ UNCHANGED pc

\* one iteration of the `while True` loop of fetch_all_segments
S_FetchPage(p) ==
    /\ pc[p] = "s_loop"
    /\ \E auth_ok \in BOOLEAN :
        IF auth_token[p] # "valid" /\ ~auth_ok
        THEN \* re-authentication fails, outside the try of the loop and
             \* before the request of this iteration
             /\ S_Raise(p, NoResponse, "Authentication failed")
             /\ UNCHANGED auth_token
        ELSE
        /\ auth_token' = [auth_token EXCEPT ![p] = "valid"]
        /\ \/ \* 429
              \E h \in RetryAfterHeaders :
                IF ScriptOn429(h) = "retry"
                THEN S_Continue(p, Resp("429", 0, 0))
                ELSE \* int() raises ValueError: `except Exception`
                     S_BreakOrRaise(p, Resp("429", 0, 0), "ValueError")
           \/ \* any other status than 200
              \E s \in ErrorStatuses :
                S_BreakOrRaise(p, Resp(s, 0, 0), "Failed to fetch segments")
           \/ \* requests.exceptions.Timeout: sleep and `continue`
              S_Continue(p, Resp("timeout", 0, 0))
           \/ \* another exception of requests.get or response.json()
              S_BreakOrRaise(p, Resp("conn_error", 0, 0), "ConnectionError")
           \/ \* 200
              LET pg == RemotePage(remote, after_cursor[p])
                  r == Resp("200", Len(pg.segs), pg.after)
                  ext == all_segments[p] \o pg.segs
              IN IF pg.segs = <<>>
                 THEN /\ pc' = [pc EXCEPT ![p] = "s_check"]
                      /\ S_Locals(p, after_cursor[p], page[p], all_segments[p],
                                  r, exc[p])
                 ELSE IF LoopEnds(pg.after)
                 THEN /\ pc' = [pc EXCEPT ![p] = "s_check"]
                      /\ S_Locals(p, pg.after, page[p], ext, r, exc[p])
                 ELSE /\ UNCHANGED pc
                      /\ S_Locals(p, pg.after, page[p] + 1, ext, r, exc[p])
    /\ UNCHANGED <<dbVars, envVars, recVars, readerVars, force, tx_end, result>>

\* a run that stores whatever the fetch returned
NothingIsEmpty(segs) == FALSE
\* `if not segments:` of run_sync
NoSegments(segs) == segs = <<>>

\* run_sync: `if not segments: raise`, then store_segments up to its commit:
\* BEGIN EXCLUSIVE, the two DELETEs and the executemany
S_Store(p) ==
    /\ pc[p] = "s_check"
    /\ IF NoSegments(all_segments[p])
       THEN /\ S_Raise(p, last[p], "No segments retrieved")
            /\ UNCHANGED <<lock, tx, tx_end>>
       ELSE IF lock # NoProc
       THEN \* database is locked: rollback and raise
            /\ S_Raise(p, last[p], "database is locked")
            /\ tx_end' = [tx_end EXCEPT ![p] = "rollback"]
            /\ UNCHANGED <<lock, tx>>
       ELSE \E k \in 0..Len(all_segments[p]) :
              LET st == StoreSegmentsIncremental(EmptyTx, all_segments[p], k)
              IN IF st.ok
                 THEN /\ lock' = p
                      /\ tx' = st.tx
                      /\ pc' = [pc EXCEPT ![p] = "s_commit"]
                      /\ UNCHANGED <<fetchVars, tx_end>>
                 ELSE \* the insert raises: rollback and raise
                      /\ S_Raise(p, last[p], "store error")
                      /\ tx_end' = [tx_end EXCEPT ![p] = "rollback"]
                      /\ UNCHANGED <<lock, tx>>
    /\ UNCHANGED <<segments, segments_fts, liveramp_segments, sync_status,
                   liveramp_sync_status, wal, envVars, recVars, readerVars,
                   force, auth_token, result>>

\* store_segments: conn.commit()
S_Commit(p) ==
    /\ pc[p] = "s_commit"
    /\ lock = p
    /\ liveramp_segments' = tx.segments
    /\ lock' = NoProc
    /\ tx' = EmptyTx
    /\ tx_end' = [tx_end EXCEPT ![p] = "commit"]
    /\ pc' = [pc EXCEPT ![p] = "s_seal"]
    /\ UNCHANGED <<segments, segments_fts, sync_status, liveramp_sync_status,
                   wal, envVars, recVars, readerVars, fetchVars, force,
                   auth_token, result>>

\* the status run_sync writes after store_segments returned
ScriptRunStatus(l) == "success"

\* run_sync: self.update_sync_status('success', len(segments))
S_Seal(p) ==
    /\ pc[p] = "s_seal"
    /\ IF lock = NoProc
       THEN /\ liveramp_sync_status' = UpdateLastRow(liveramp_sync_status,
                    ScriptRunStatus(last[p]), Len(all_segments[p]), "")
            /\ pc' = [pc EXCEPT ![p] = "s_stats"]
            /\ UNCHANGED fetchVars
       ELSE /\ S_Raise(p, last[p], "database is locked")
            /\ UNCHANGED liveramp_sync_status
    /\ UNCHANGED <<segments, segments_fts, liveramp_segments, sync_status,
                   lock, tx, wal, envVars, recVars, readerVars,
                   force, auth_token, tx_end, result>>

\* run_sync: the summary, get_statistics() reads the tables
S_Stats(p) ==
    /\ pc[p] = "s_stats"
    /\ IF ReadBlocked
       THEN /\ S_Raise(p, last[p], "database is locked")
            /\ UNCHANGED result
            /\ UNCHANGED <<force, tx_end>>
       ELSE /\ EndRun(p, "success")
            /\ tx_end' = [tx_end EXCEPT ![p] = "none"]
    /\ UNCHANGED <<dbVars, envVars, recVars, readerVars, auth_token>>

\* run_sync: except Exception: update_sync_status('failed', 0, str(e)); raise
S_Except(p) ==
    /\ pc[p] = "s_except"
    /\ IF lock = NoProc
       THEN /\ liveramp_sync_status' =
                    UpdateLastRow(liveramp_sync_status, "failed", 0, exc[p])
            /\ EndRun(p, "failed")
       ELSE \* the handler itself raises
            /\ EndRun(p, "raised")
            /\ UNCHANGED liveramp_sync_status
    /\ tx_end' = [tx_end EXCEPT ![p] = "none"]
    /\ UNCHANGED <<segments, segments_fts, liveramp_segments, sync_status,
                   lock, tx, wal, envVars, recVars, readerVars, auth_token>>

ScriptRunning == {"s_start", "s_auth", "s_loop", "s_check", "s_commit",
                  "s_seal", "s_stats", "s_except"}

\* an interrupt handling that commits what the transaction holds
S_InterruptCommits(p) ==
    /\ pc[p] \in ScriptRunning
    /\ pc' = [pc EXCEPT ![p] = "s_cancel"]
    /\ IF lock = p
       THEN /\ lock' = NoProc
            /\ liveramp_segments' = tx.segments
            /\ tx' = EmptyTx
            /\ tx_end' = [tx_end EXCEPT ![p] = "commit"]
       ELSE UNCHANGED <<lock, tx, tx_end, liveramp_segments>>
    /\ force' = [force EXCEPT ![p] = FALSE]
    /\ ResetFetch(p)
    /\ UNCHANGED <<segments, segments_fts, sync_status,
                   liveramp_sync_status, wal, envVars, recVars, readerVars,
                   auth_token, result>>

\* KeyboardInterrupt inside run_sync: it passes every `except Exception`;
\* the `finally` of store_segments closes the connection, which rolls back
S_Interrupt(p) ==
    /\ pc[p] \in ScriptRunning
    /\ pc' = [pc EXCEPT ![p] = "s_cancel"]
    /\ IF lock = p
       THEN /\ lock' = NoProc
            /\ tx' = EmptyTx
            /\ tx_end' = [tx_end EXCEPT ![p] = "rollback"]
       ELSE UNCHANGED <<lock, tx, tx_end>>
    /\ force' = [force EXCEPT ![p] = FALSE]
    /\ ResetFetch(p)
    /\ UNCHANGED <<segments, segments_fts, liveramp_segments, sync_status,
                   liveramp_sync_status, wal, envVars, recVars, readerVars,
                   auth_token, result>>

\* a handler of main that exits without writing to the log
S_CancelUnsealed(p) ==
    /\ pc[p] = "s_cancel"
    /\ EndRun(p, "cancelled")
    /\ tx_end' = [tx_end EXCEPT ![p] = "none"]
    /\ UNCHANGED <<dbVars, envVars, recVars, readerVars, auth_token>>

\* main: except KeyboardInterrupt: update_sync_status('cancelled'); exit
S_Cancel(p) ==
    /\ pc[p] = "s_cancel"
    /\ IF lock = NoProc
       THEN /\ liveramp_sync_status' =
                    UpdateLastRow(liveramp_sync_status, "cancelled", 0, "")
            /\ EndRun(p, "cancelled")
       ELSE /\ EndRun(p, "raised")
            /\ UNCHANGED liveramp_sync_status
    /\ tx_end' = [tx_end EXCEPT ![p] = "none"]
    /\ UNCHANGED <<segments, segments_fts, liveramp_segments, sync_status,
                   lock, tx, wal, envVars, recVars, readerVars, auth_token>>

\* ------------------------------------------------------------ specification
\* One sync worker that calls the adapter or runs the script, one call after
\* the other, next to a reader.
Next ==
    \/ Tick
    \/ TokenExpire(1)
    \/ A_Call(1)
    \/ A_Sync(1)
    \/ A_Begin(1)
    \/ A_FetchPage(1)
    \/ A_Finish(1)
    \/ A_Record(1)
    \/ A_Interrupt(1)
    \/ S_Main(1)
    \/ S_RunSync(1)
    \/ S_MarkStarted(1)
    \/ S_FetchInit(1)
    \/ S_FetchPage(1)
    \/ S_Store(1)
    \/ S_Commit(1)
    \/ S_Seal(1)
    \/ S_Stats(1)
    \/ S_Except(1)
    \/ S_Interrupt(1)
    \/ S_Cancel(1)
    \/ R_GetSegments
    \/ R_GetSegmentById
    \/ R_Return

Spec == Init /\ [][Next]_vars

\* Overlapping runs of the sync script (two scheduled jobs, or a job and a
\* manual run) against the same database file, on one catalog.
InitJobs ==
    /\ InitStore
    /\ entry = "script"
    /\ remote = [cat |-> <<1, 2, 3>>, eager |-> FALSE]
    /\ raw = BlankRecord
    /\ out = NoOut
    /\ query = NoQuery
    /\ found = NoFound

NextJobs ==
    \/ \E p \in Procs : S_Main(p)
    \/ \E p \in Procs : S_RunSync(p)
    \/ \E p \in Procs : S_MarkStarted(p)
    \/ \E p \in Procs : S_FetchInit(p)
    \/ \E p \in Procs : S_FetchPage(p)
    \/ \E p \in Procs : S_Store(p)
    \/ \E p \in Procs : S_Commit(p)
    \/ \E p \in Procs : S_Seal(p)
    \/ \E p \in Procs : S_Stats(p)
    \/ \E p \in Procs : S_Except(p)
    \/ \E p \in Procs : S_Interrupt(p)
    \/ \E p \in Procs : S_Cancel(p)

SpecJobs == InitJobs /\ [][NextJobs]_vars

\* One process of the sync command after the other.  The process goes on
\* until it exits: every step of run_sync and of the handlers of main is
\* taken once it is due (weak fairness); the fetch loop is left in the end,
\* which is the condition the property of the sealing is stated under
\* (strong fairness on the iteration that leaves the loop).  Nothing makes a
\* command start or an interrupt arrive.
InitCommand ==
    /\ InitStore
    /\ entry = "script"
    /\ remote \in Remotes
    /\ raw = BlankRecord
    /\ out = NoOut
    /\ query = NoQuery
    /\ found = NoFound

\* the iteration of the fetch loop that leaves it
S_LeaveLoop(p) == S_FetchPage(p) /\ pc'[p] # "s_loop"

NextCommand ==
    \/ S_Main(1)
    \/ S_RunSync(1)
    \/ S_MarkStarted(1)
    \/ S_FetchInit(1)
    \/ S_FetchPage(1)
    \/ S_Store(1)
    \/ S_Commit(1)
    \/ S_Seal(1)
    \/ S_Stats(1)
    \/ S_Except(1)
    \/ S_Interrupt(1)
    \/ S_Cancel(1)

FairCommand ==
    /\ WF_vars(S_RunSync(1))
    /\ WF_vars(S_MarkStarted(1))
    /\ WF_vars(S_FetchInit(1))
    /\ SF_vars(S_LeaveLoop(1))
    /\ WF_vars(S_Store(1))
    /\ WF_vars(S_Commit(1))
    /\ WF_vars(S_Seal(1))
    /\ WF_vars(S_Stats(1))
    /\ WF_vars(S_Except(1))
    /\ WF_vars(S_Cancel(1))

SpecCommand == InitCommand /\ [][NextCommand]_vars /\ FairCommand

\* The adapter or the script against a marketplace whose catalog changes
\* between syncs:
\* the provider of the first segment withdraws it.
CatalogChange ==
    /\ \A p \in Procs : pc[p] = "idle"
    /\ remote.cat # <<>>
    /\ remote' = [remote EXCEPT !.cat = Tail(@)]
    /\ UNCHANGED <<dbVars, recVars, entry, now, fetchVars, procVars, readerVars>>

InitCatalog ==
    /\ InitStore
    /\ entry \in {"adapter", "script"}
    /\ remote = [cat |-> <<1, 2, 3>>, eager |-> FALSE]
    /\ raw = BlankRecord
    /\ out = NoOut
    /\ query = NoQuery
    /\ found = NoFound

NextCatalog ==
    \/ CatalogChange
    \/ Tick
    \/ A_Call(1)
    \/ A_Sync(1)
    \/ A_Begin(1)
    \/ A_FetchPage(1)
    \/ A_Finish(1)
    \/ A_Record(1)
    \/ A_Interrupt(1)
    \/ R_GetSegments
    \/ R_GetSegmentById
    \/ R_Return
    \/ S_Main(1)
    \/ S_RunSync(1)
    \/ S_MarkStarted(1)
    \/ S_FetchInit(1)
    \/ S_FetchPage(1)
    \/ S_Store(1)
    \/ S_Commit(1)
    \/ S_Seal(1)
    \/ S_Stats(1)
    \/ S_Except(1)

SpecCatalog == InitCatalog /\ [][NextCatalog]_vars

\* ------------------------------------------- extraction of one raw record
\* a test that takes every value but None for true
TruthyNotNone(c) == c # NULL
\* `if cpm_price:` of the store paths: None and 0 are false
Truthy(c) == c # NULL /\ c # 0

\* `isinstance(sub, dict)` and `isinstance(sub.get('price', {}), dict)`: an
\* absent price is the default {}, a dict without keys
PriceIsDict(sub) == sub.kind = "dict" /\ sub.price \in {"absent", "dict"}

\* the pricing loop of the store paths over the rest of the list; cpm is the
\* value of cpm_price so far.  The loop ends at the first truthy cpm; without
\* one cpm_price keeps the cpm of the last entry whose price is a dict.
RECURSIVE PricingLoop(_, _)
PricingLoop(items, cpm) ==
    IF items = <<>> THEN [has_pricing |-> FALSE, cpm |-> cpm]
    ELSE IF ~PriceIsDict(Head(items)) THEN PricingLoop(Tail(items), cpm)
    ELSE IF Truthy(Head(items).cpm)
         THEN [has_pricing |-> TRUE, cpm |-> Head(items).cpm]
    ELSE PricingLoop(Tail(items), Head(items).cpm)

\* `for sub in subscriptions` raises TypeError when the value is not
\* iterable: `segment.get('subscriptions', [])` is None for a null value
Iterable(block) == block.kind \in {"absent", "list"}

\* reach_count: the count of reach.inputRecords when both are dicts
ReachCount(reach) ==
    IF reach.kind = "dict" /\ reach.input = "dict" THEN reach.count ELSE NULL

\* the names the adapter collects: those of the dicts with a truthy name
AdapterCategories(items) ==
    Cardinality({i \in 1..Len(items) : items[i] = "named"})

\* the row _store_segments_incremental builds of a record, or the exception
\* of its loops
StoreRow(rec) ==
    IF ~Iterable(rec.subscriptions) \/ ~Iterable(rec.categories)
    THEN [NoOut EXCEPT !.kind = "raised"]
    ELSE LET pr == PricingLoop(rec.subscriptions.items, NULL)
         IN  [kind |-> "row", has_pricing |-> pr.has_pricing, cpm |-> pr.cpm,
              is_free |-> FALSE, reach |-> ReachCount(rec.reach),
              ncat |-> AdapterCategories(rec.categories.items),
              coverage |-> NULL, has_coverage |-> FALSE]

\* the row store_segments of the script builds: every category gives a
\* string (the name of a dict, '' without the key, str(cat) otherwise) and
\* ', '.join raises on the None of a null name
ScriptRow(rec) ==
    IF \/ ~Iterable(rec.subscriptions)
       \/ ~Iterable(rec.categories)
       \/ \E i \in 1..Len(rec.categories.items) :
              rec.categories.items[i] = "nullname"
    THEN [NoOut EXCEPT !.kind = "raised"]
    ELSE LET pr == PricingLoop(rec.subscriptions.items, NULL)
         IN  [kind |-> "row", has_pricing |-> pr.has_pricing, cpm |-> pr.cpm,
              is_free |-> FALSE, reach |-> ReachCount(rec.reach),
              ncat |-> Len(rec.categories.items),
              coverage |-> NULL, has_coverage |-> FALSE]

\* the row _store_segments_batch of the adapter builds: its loops are those
\* of the script, not those of _store_segments_incremental
BatchRow(rec) ==
    IF \/ ~Iterable(rec.subscriptions)
       \/ ~Iterable(rec.categories)
       \/ \E i \in 1..Len(rec.categories.items) :
              rec.categories.items[i] = "nullname"
    THEN [NoOut EXCEPT !.kind = "raised"]
    ELSE LET pr == PricingLoop(rec.subscriptions.items, NULL)
         IN  [kind |-> "row", has_pricing |-> pr.has_pricing, cpm |-> pr.cpm,
              is_free |-> FALSE, reach |-> ReachCount(rec.reach),
              ncat |-> Len(rec.categories.items),
              coverage |-> NULL, has_coverage |-> FALSE]

\* the coverage is a percentage with one decimal: the model holds it in
\* tenths of a percent.  PopulationTenth is the reach that makes one tenth
\* of a percent of the population of 250_000_000.
PopulationTenth == 250000
\* the cap of the coverage, 50.0 percent, in tenths
CoverageCap == 500

\* round(x, 1) of x = reach / 250_000_000 * 100, in tenths: the nearest
\* tenth, the even one of two that are equally near
Round1(reach) ==
    LET q == reach \div PopulationTenth
        r == reach % PopulationTenth
    IN  IF 2 * r > PopulationTenth THEN q + 1
        ELSE IF 2 * r < PopulationTenth THEN q
        ELSE IF q % 2 = 0 THEN q ELSE q + 1

\* the coverage without its cap
CoverageUncapped(reach) == Round1(reach)
\* `round(min(coverage, 50.0), 1)`: the cap comes before the rounding
Coverage(reach) ==
    IF reach >= CoverageCap * PopulationTenth THEN CoverageCap
    ELSE Round1(reach)

\* `if reach_value:` guards the computation: None and 0 give no coverage
CoverageOf(reach) == IF Truthy(reach) THEN Coverage(reach) ELSE NULL

\* `price_info.get('cpm') or price_info.get('value')`
CpmOrValue(sub) == IF Truthy(sub.cpm) THEN sub.cpm ELSE sub.value

\* the pricing loop of _normalize_segments: it stops at the first entry
\* whose price is a dict, whatever that entry holds
RECURSIVE NormalizeLoop(_)
NormalizeLoop(items) ==
    IF items = <<>> THEN NULL
    ELSE IF PriceIsDict(Head(items)) THEN CpmOrValue(Head(items))
    ELSE NormalizeLoop(Tail(items))

\* the signal _normalize_segments builds of a record.  A count that is a
\* non-empty string is truthy and raises TypeError in the division of the
\* coverage.  has_pricing_data is `cpm is not None`, read after cpm was set
\* to 0.0 for a free record.
Normalize(rec) ==
    IF \/ ~Iterable(rec.subscriptions)
       \/ rec.reach.kind = "dict" /\ rec.reach.input = "dict"
            /\ rec.reach.ctype = "str"
    THEN [NoOut EXCEPT !.kind = "raised"]
    ELSE LET c    == NormalizeLoop(rec.subscriptions.items)
             free == c = 0 \/ c = NULL
             cpm  == IF free THEN 0 ELSE c
             cov  == CoverageOf(ReachCount(rec.reach))
         IN  [kind |-> "normalized", has_pricing |-> cpm # NULL,
              cpm |-> cpm, is_free |-> free,
              reach |-> ReachCount(rec.reach),
              ncat |-> IF rec.categories.kind = "list"
                       THEN Len(rec.categories.items) ELSE 0,
              coverage |-> cov, has_coverage |-> cov # NULL]

\* the result search_segments builds of a stored row: reach_count is a
\* column of INTEGER affinity, so a numeric string was stored as its number
SearchResult(row) ==
    [row EXCEPT !.kind = "result", !.coverage = CoverageOf(row.reach)]

\* the sync of the adapter stores the record
E_StoreIncremental ==
    /\ out.kind = "none"
    /\ out' = StoreRow(raw)
    /\ UNCHANGED <<dbVars, envVars, fetchVars, procVars, readerVars, raw,
                   query, found>>

\* the one-shot store of the adapter stores the record
E_StoreBatch ==
    /\ out.kind = "none"
    /\ out' = BatchRow(raw)
    /\ UNCHANGED <<dbVars, envVars, fetchVars, procVars, readerVars, raw,
                   query, found>>

\* the sync of the script stores the record
E_StoreSegments ==
    /\ out.kind = "none"
    /\ out' = ScriptRow(raw)
    /\ UNCHANGED <<dbVars, envVars, fetchVars, procVars, readerVars, raw,
                   query, found>>

\* a search normalizes the record
E_Normalize ==
    /\ out.kind = "none"
    /\ out' = Normalize(raw)
    /\ UNCHANGED <<dbVars, envVars, fetchVars, procVars, readerVars, raw,
                   query, found>>

\* a search builds its result of the row that was stored
E_SearchResult ==
    /\ out.kind = "row"
    /\ out' = SearchResult(out)
    /\ UNCHANGED <<dbVars, envVars, fetchVars, procVars, readerVars, raw,
                   query, found>>

InitRecords ==
    /\ InitStore
    /\ entry \in {"adapter", "script"}
    /\ remote = [cat |-> <<>>, eager |-> FALSE]
    /\ raw \in RawRecords
    /\ out = NoOut
    /\ query = NoQuery
    /\ found = NoFound

NextRecords ==
    \/ entry = "adapter" /\ E_StoreIncremental
    \/ entry = "adapter" /\ E_StoreBatch
    \/ entry = "script" /\ E_StoreSegments
    \/ entry = "adapter" /\ E_Normalize
    \/ entry = "adapter" /\ E_SearchResult

SpecRecords == InitRecords /\ [][NextRecords]_vars

\* ------------------------------------------------- search of the catalog
\* the `limit` of search_segments as get_segments calls it
SearchLimit == 50

\* the replacements of search_segments on one item: a double quote and an
\* apostrophe are doubled, * ? ^ are removed
SanitizeItem(c) ==
    CASE c = "\"" -> "\"\""
      [] c = "'" -> "''"
      [] c \in {"*", "?", "^"} -> ""
      [] OTHER -> c

\* the sanitized text as the items the FTS5 tokenizer of queries sees: an
\* item that was emptied is no more than a blank
RECURSIVE Sanitize(_)
Sanitize(text) ==
    IF text = <<>> THEN <<>>
    ELSE LET c == SanitizeItem(Head(text))
         IN  IF c = "" THEN Sanitize(Tail(text))
             ELSE <<c>> \o Sanitize(Tail(text))

\* "" is a phrase without a token
EmptyPhrase == "\"\""

\* the parser of FTS5 takes a text of phrases with single operators between
\* them: no empty text, no apostrophe, no operator at either end, no two
\* operators in a row.  Anything else is `fts5: syntax error`.
Fts5Accepts(q) ==
    /\ q # <<>>
    /\ \A i \in 1..Len(q) : q[i] # "''"
    /\ q[1] \notin Keywords
    /\ q[Len(q)] \notin Keywords
    /\ \A i \in 1..(Len(q) - 1) : ~(q[i] \in Keywords /\ q[i + 1] \in Keywords)

\* the place of the last k in q, 0 when there is none
LastIndex(q, k) ==
    IF \E i \in 1..Len(q) : q[i] = k
    THEN CHOOSE i \in 1..Len(q) :
            q[i] = k /\ \A j \in (i + 1)..Len(q) : q[j] # k
    ELSE 0

\* phrases in a row are an implicit AND; a phrase without token is left out
\* of it, and a row of such phrases only matches nothing
ListMatch(q, word) ==
    /\ \E i \in 1..Len(q) : q[i] # EmptyPhrase
    /\ \A i \in 1..Len(q) : q[i] # EmptyPhrase => q[i] = word

\* NOT binds tighter than AND, AND tighter than OR; all group to the left
RECURSIVE NotMatch(_, _)
NotMatch(q, word) ==
    LET i == LastIndex(q, "NOT")
    IN  IF i = 0 THEN ListMatch(q, word)
        ELSE /\ NotMatch(SubSeq(q, 1, i - 1), word)
             /\ ~ListMatch(SubSeq(q, i + 1, Len(q)), word)

RECURSIVE AndMatch(_, _)
AndMatch(q, word) ==
    LET i == LastIndex(q, "AND")
    IN  IF i = 0 THEN NotMatch(q, word)
        ELSE /\ AndMatch(SubSeq(q, 1, i - 1), word)
             /\ NotMatch(SubSeq(q, i + 1, Len(q)), word)

\* segments_fts MATCH q on a row whose indexed text is the one word
RECURSIVE Fts5Match(_, _)
Fts5Match(q, word) ==
    LET i == LastIndex(q, "OR")
    IN  IF i = 0 THEN AndMatch(q, word)
        ELSE \/ Fts5Match(SubSeq(q, 1, i - 1), word)
             \/ AndMatch(SubSeq(q, i + 1, Len(q)), word)

\* the order of the bm25 rank in this catalog: the word of one record in
\* three weighs more than the word of two in three, and the rows with the
\* same indexed text have the same rank
Relevance(id) == IF TextOf(id) = "v" THEN 2 ELSE 1

\* ORDER BY rank over index entries <<rowid, id>>: SQLite hands out the
\* rows of equal rank in the order of their rowid
RECURSIVE OrderByRank(_)
OrderByRank(hits) ==
    IF hits = {} THEN <<>>
    ELSE LET e == CHOOSE x \in hits :
                    \A y \in hits :
                       \/ Relevance(x[2]) > Relevance(y[2])
                       \/ Relevance(x[2]) = Relevance(y[2]) /\ x[1] <= y[1]
         IN  <<e>> \o OrderByRank(hits \ {e})

\* the result built of the row of the table that the index entry joins to
ResultRow(e) ==
    [segment_id |-> ReadView[e[1]],
     coverage |-> CoverageOf(ReachOf(ReadView[e[1]]))]

\* search_segments: sanitize, MATCH, ORDER BY rank, LIMIT.  The statement
\* raises on a locked file and on a text the parser of FTS5 refuses.
SearchSegments(text) ==
    LET q == Sanitize(text)
        hits == {e \in segments_fts :
                    e[1] <= Len(ReadView) /\ Fts5Match(q, TextOf(e[2]))}
        ranked == OrderByRank(hits)
    IN  IF ReadBlocked \/ ~Fts5Accepts(q) THEN [NoFound EXCEPT !.kind = "raised"]
        ELSE [kind |-> "results",
              rows |-> [i \in 1..Min(Len(ranked), SearchLimit) |->
                           ResultRow(ranked[i])]]

\* get_segments with its search_query: the search when the text is not
\* empty, the whole table otherwise; the rows are normalized in their order
GetSegments(text) ==
    IF text # <<>> THEN SearchSegments(text)
    ELSE IF ReadBlocked THEN [NoFound EXCEPT !.kind = "raised"]
    ELSE [kind |-> "results",
          rows |-> [i \in 1..Len(ReadView) |->
                       [segment_id |-> ReadView[i],
                        coverage |-> CoverageOf(ReachOf(ReadView[i]))]]]

\* a caller searches the cache; search_segments takes no filter
Q_SearchSegments ==
    /\ found.kind = "none"
    /\ \E q \in Queries :
         /\ q.min_coverage = NULL
         /\ q.text # <<>>
         /\ query' = q
         /\ found' = SearchSegments(q.text)
    /\ UNCHANGED <<dbVars, envVars, fetchVars, procVars, readerVars, raw, out>>

\* a discovery with free text and filters asks the adapter for its
\* segments: get_segments has no parameter for the filters
Q_GetSegments ==
    /\ found.kind = "none"
    /\ \E q \in Queries :
         /\ query' = q
         /\ found' = GetSegments(q.text)
    /\ UNCHANGED <<dbVars, envVars, fetchVars, procVars, readerVars, raw, out>>

\* the answer was handed to the caller
Q_Return ==
    /\ found.kind # "none"
    /\ query' = NoQuery
    /\ found' = NoFound
    /\ UNCHANGED <<dbVars, envVars, fetchVars, procVars, readerVars, raw, out>>

\* the remote lists the three records of the catalog in some order
SearchRemotes ==
    {[cat |-> c, eager |-> FALSE] :
        c \in {<<1, 2, 3>>, <<1, 3, 2>>, <<2, 1, 3>>,
               <<2, 3, 1>>, <<3, 1, 2>>, <<3, 2, 1>>}}

InitSearch ==
    /\ InitStore
    /\ entry = "adapter"
    /\ remote \in SearchRemotes
    /\ raw = BlankRecord
    /\ out = NoOut
    /\ query = NoQuery
    /\ found = NoFound

\* syncs of the adapter, and searches between the syncs
NextSearch ==
    \/ found.kind = "none" /\ A_Call(1)
    \/ found.kind = "none" /\ A_Sync(1)
    \/ found.kind = "none" /\ A_Begin(1)
    \/ found.kind = "none" /\ A_FetchPage(1)
    \/ found.kind = "none" /\ A_Finish(1)
    \/ found.kind = "none" /\ A_Record(1)
    \/ pc[1] = "idle" /\ Q_SearchSegments
    \/ pc[1] = "idle" /\ Q_GetSegments
    \/ Q_Return

SpecSearch == InitSearch /\ [][NextSearch]_vars

TypeOK ==
    /\ lock \in Procs \cup {NoProc}
    /\ now \in 0..MaxTime
    /\ \A p \in Procs : pc[p] \in {"idle", "a_called", "a_begin", "a_loop",
                                   "a_finish", "a_record", "s_called",
                                   "s_cancel"} \cup ScriptRunning

\* ===================================================== properties of a sync
\* the program counters of the two fetch loops
FetchLoop == {"a_loop", "s_loop"}

\* the run of p met an error it does not recover from: an error status, a
\* failed connection, or an exception caught on the way
Unrecoverable(p) ==
    \/ last[p].status \in ErrorStatuses \cup {"conn_error"}
    \/ exc[p] # ""

\* the last row of a sync log
LastRow(log) == log[Len(log)]

\* C1: a sync run in which a failure is injected after N of the M batches
\* were inserted into the open transaction (the connection breaks, or an
\* insert raises) leaves the committed segment set, by count and by content,
\* as it was before the run.
C1_FailedSyncIsAtomic ==
    [][\A p \in Procs :
         (pc[p] = "a_finish" /\ exc[p] \in {"ConnectionError", "StoreError"})
         => /\ Len(segments') = Len(segments)
            /\ segments' = segments
            /\ segments_fts' = segments_fts]_vars

\* C2: when ingestion meets an unrecoverable error the transaction ends by
\* rollback, never by commit, and the committed catalog stays the one of
\* before the sync: not empty, not a prefix of the new catalog.
C2_UnrecoverableRollsBack ==
    [][\A p \in Procs :
         Unrecoverable(p)
         => /\ tx_end'[p] # "commit"
            /\ segments' = segments
            /\ liveramp_segments' = liveramp_segments]_vars

\* C3: a run that met an unrecoverable error is never written to the sync
\* log as success, so it never renews the freshness of the catalog.
C3_FailedRunNotSuccess ==
    [][\A p \in Procs :
         Unrecoverable(p)
         => /\ sync_status' # sync_status
                 => LastRow(sync_status').status # "success"
            /\ liveramp_sync_status' # liveramp_sync_status
                 => LastRow(liveramp_sync_status').status # "success"]_vars

\* C4: while a sync holds its transaction open the committed tables do not
\* change, and every read that returns rows returns them from the committed
\* table: the catalog of before the sync until the commit, the new one after.
C4_ReadersSeeCommitted ==
    [][/\ (lock # NoProc /\ lock' # NoProc)
           => /\ segments' = segments
              /\ segments_fts' = segments_fts
              /\ liveramp_segments' = liveramp_segments
       /\ (reader_pc = "idle" /\ reader_pc' = "got" /\ observed'.ok)
           => observed'.rows = IF observed'.id = NULL THEN segments
                               ELSE WhereId(segments, observed'.id)]_vars

\* a reader holds the whole committed catalog while a sync has replaced part
\* of it in its open transaction
C4_Witness ==
    /\ reader_pc = "got"
    /\ observed.ok
    /\ observed.id = NULL
    /\ observed.rows = segments
    /\ segments # <<>>
    /\ lock # NoProc
    /\ tx.segments # <<>>
    /\ tx.segments # segments

\* C5: a worker that is still in its fetch loop after a 200 answer got a page
\* with records and a next cursor, and asks for that cursor next; so an empty
\* page or a page without cursor ends the loop with no further request, and
\* once a page was taken the first page is never asked for again.
C5_PaginationTerminates ==
    \A p \in Procs :
        pc[p] \in FetchLoop
        => /\ last[p].status = "200"
              => /\ last[p].n > 0
                 /\ last[p].after # 0
                 /\ after_cursor[p] = last[p].after
           /\ page[p] > 0 => after_cursor[p] # 0

\* the loop was left on an empty page that followed pages with records
C5_Witness ==
    /\ pc[1] \in {"a_finish", "s_check"}
    /\ last[1].status = "200"
    /\ last[1].n = 0
    /\ page[1] > 0

\* C6: a page request answered with 429 leaves the worker in its loop with
\* the same cursor, the same page counter and the same records collected.
C6_RateLimitSamePage ==
    [][\A p \in Procs :
         (pc[p] \in FetchLoop /\ last'[p].status = "429")
         => /\ pc'[p] = pc[p]
            /\ after_cursor'[p] = after_cursor[p]
            /\ page'[p] = page[p]
            /\ batch_segments'[p] = batch_segments[p]
            /\ all_segments'[p] = all_segments[p]]_vars

\* C7: a page request that timed out or was answered with a 5xx is retried,
\* and the loop is left on it only by raising: the run does not go on to
\* store and commit the pages it has.
C7_TransientSurfaced ==
    [][\A p \in Procs :
         (/\ pc[p] \in FetchLoop
          /\ last'[p].status \in {"500", "timeout"}
          /\ pc'[p] \notin FetchLoop)
         => pc'[p] = "s_except"]_vars

\* C8: a page request answered with an authentication failure is followed by
\* a retry of the same page (same cursor, same page counter) or, when it
\* fails again, by the failure of the run.
C8_AuthExpiryRetried ==
    [][\A p \in Procs :
         (pc[p] \in FetchLoop /\ last'[p].status = "401")
         => \/ /\ pc'[p] = pc[p]
               /\ after_cursor'[p] = after_cursor[p]
               /\ page'[p] = page[p]
            \/ pc'[p] = "s_except"]_vars

\* the latest successful sync finished less than the freshness window ago
FreshByLog ==
    IF entry = "adapter"
    THEN \E i \in 1..Len(sync_status) :
            /\ sync_status[i].status = "success"
            /\ \A j \in 1..Len(sync_status) :
                   sync_status[j].status = "success" => j <= i
            /\ now - sync_status[i].last_sync < max_age_hours
    ELSE \E i \in SuccessRows :
            /\ \A j \in SuccessRows : j <= i
            /\ liveramp_sync_status[i].sync_completed # NULL
            /\ now - liveramp_sync_status[i].sync_completed < max_age_hours

\* C9: a call with force = false while the latest successful sync is less
\* than 24 hours old returns at once, leaving the tables and the sync logs as
\* they are; a call with force = true is never skipped.
C9_FreshnessGating ==
    [][\A p \in Procs :
         (pc[p] \in {"a_called", "s_called"} /\ pc'[p] # pc[p])
         => /\ (~force[p] /\ FreshByLog)
               => /\ pc'[p] = "idle"
                  /\ result'[p] = "skipped"
                  /\ segments' = segments
                  /\ segments_fts' = segments_fts
                  /\ liveramp_segments' = liveramp_segments
                  /\ sync_status' = sync_status
                  /\ liveramp_sync_status' = liveramp_sync_status
            /\ force[p] => result'[p] # "skipped"]_vars

\* a call was skipped over a catalog that a sync had stored
C9_Witness ==
    /\ pc[1] = "idle"
    /\ result[1] = "skipped"
    /\ FreshByLog
    /\ segments # <<>> \/ liveramp_segments # <<>>

\* C10: the sync log never holds more than one row with status in_progress.
C10_OneInProgress ==
    Cardinality({i \in 1..Len(liveramp_sync_status) :
                    liveramp_sync_status[i].status = "in_progress"}) <= 1

\* the statuses of a sealed SyncRun
Sealed == {"success", "failed", "cancelled"}

\* C11: a row of the sync log that was sealed (success, failed, cancelled)
\* stays in the log and keeps its status, completed_at, total_segments and
\* error_message through every later step.
C11_SealedRowsImmutable ==
    [][\A i \in 1..Len(liveramp_sync_status) :
         liveramp_sync_status[i].status \in Sealed
         => /\ Len(liveramp_sync_status') >= i
            /\ liveramp_sync_status'[i] = liveramp_sync_status[i]]_vars

\* C12: in every committed state the search index holds exactly one entry
\* for every row of the segments table and no entry for anything else.
C12_IndexMatchesTable ==
    segments_fts = IndexOf(segments, 1)

\* the catalog the entry point in use commits to
Committed == IF entry = "adapter" THEN segments ELSE liveramp_segments

C14_SuccessSealsRun ==
    [][\A p \in Procs :
         (/\ pc[p] \in {"a_record", "s_seal"}
          /\ pc'[p] \in {"idle", "s_stats"}
          /\ ~Unrecoverable(p))
         => /\ tx_end[p] = "commit"
            /\ IF entry = "adapter"
               THEN /\ sync_status' # <<>>
                    /\ LastRow(sync_status').status = "success"
                    /\ LastRow(sync_status').total_segments = Len(segments')
                    /\ IsCacheFresh'
               ELSE /\ liveramp_sync_status' # <<>>
                    /\ LastRow(liveramp_sync_status').status = "success"
                    /\ LastRow(liveramp_sync_status').total_segments
                           = Len(liveramp_segments')
                    /\ ~NeedsSync']_vars

\* the script sealed a run that fetched without error and stored records
C14_Witness ==
    /\ pc[1] = "s_stats"
    /\ ~Unrecoverable(1)
    /\ tx_end[1] = "commit"
    /\ liveramp_segments # <<>>
    /\ LastRow(liveramp_sync_status).status = "success"
    /\ LastRow(liveramp_sync_status).total_segments = Len(liveramp_segments)
    /\ ~NeedsSync

\* the positions of a run that is at work on the store: it has written its
\* in_progress row (script) or opened its transaction (adapter) and has not
\* sealed yet
AtWork == {"s_auth", "s_loop", "s_check", "s_commit", "s_seal",
           "a_loop", "a_finish", "a_record"}

\* C15: at most one sync run is at work at a time (a second request made
\* meanwhile is turned away or waits before it starts), and at most one run
\* holds the write transaction.
C15_OneSyncAtATime ==
    /\ Cardinality({p \in Procs : pc[p] \in AtWork}) <= 1
    /\ Cardinality({p \in Procs : lock = p}) <= 1

\* C16: a read issued while a sync holds its transaction open (fetching
\* pages, sleeping on a backoff, inserting batches) completes and returns
\* rows without waiting for the sync to end.
C16_ReadsNeverBlocked ==
    [][(reader_pc = "idle" /\ reader_pc' = "got" /\ lock # NoProc)
       => observed'.ok]_vars

\* the positions of a run that is fetching, ingesting or committing
Cancellable == {"s_auth", "s_loop", "s_check", "s_commit",
                "a_begin", "a_loop", "a_finish"}

\* the step of p is an interrupt of its run: the script goes to the handler
\* of main, the adapter call ends by the exception
Interrupted(p) ==
    \/ pc'[p] = "s_cancel" /\ pc[p] # "s_cancel"
    \/ pc'[p] = "idle" /\ result'[p] = "raised" /\ entry = "adapter"

C18_AnomaliesNeverFatal ==
    out.kind # "none"
    => /\ out.kind # "raised"
       /\ ReachCount(raw.reach) = NULL => out.reach = NULL
       /\ raw.subscriptions.kind # "list" => ~out.has_pricing

\* C19: every row built for the segments table has has_pricing true exactly
\* when its cpm_price is neither null nor 0, whatever the entries of the
\* subscriptions list of the record and their order.
C19_HasPricingIffCpm ==
    out.kind = "row" => (out.has_pricing <=> (out.cpm # NULL /\ out.cpm # 0))

\* a row was built of a list whose first entry is priced at 0 and whose
\* second entry carries a price: the row has the price of the second
C19_Witness ==
    /\ out.kind = "row"
    /\ Len(raw.subscriptions.items) = 2
    /\ raw.subscriptions.items[1].price = "dict"
    /\ raw.subscriptions.items[1].cpm = 0
    /\ out.has_pricing
    /\ out.cpm = raw.subscriptions.items[2].cpm

\* the entries of a list that carry a cpm which is neither null nor 0
ValidOffers(items) ==
    {i \in 1..Len(items) : PriceIsDict(items[i]) /\ items[i].cpm \notin {NULL, 0}}

\* C20: the price extracted of a record is the cpm of the first entry of its
\* subscriptions list that carries a cpm which is neither null nor 0, and the
\* pricing flag is then true; a record without such an entry gets the
\* pricing flag false and, when normalized, is free with cpm 0.
C20_FirstValidOffer ==
    out.kind \in {"row", "normalized"}
    => LET items == raw.subscriptions.items
           valid == ValidOffers(items)
       IN  IF valid # {}
           THEN /\ out.has_pricing
                /\ out.cpm = items[CHOOSE i \in valid :
                                     \A j \in valid : i <= j].cpm
           ELSE /\ ~out.has_pricing
                /\ out.kind = "normalized" => out.is_free /\ out.cpm = 0

C22_SegmentIdUnique ==
    \A i, j \in 1..Len(segments) : segments[i] = segments[j] => i = j

\* a run took one record from two pages: the insert of the batch that holds
\* it twice raised, and the run is on its way to the rollback
C22_Witness ==
    /\ entry = "adapter"
    /\ pc[1] = "a_finish"
    /\ exc[1] = "StoreError"
    /\ page[1] > 0
    /\ \E i, j \in 1..Len(batch_segments[1]) :
           i # j /\ batch_segments[1][i] = batch_segments[1][j]

\* C23: a search answers every free text with a list of results, never with
\* an exception, and no item of the text reaches the index as an operator or
\* as a character the query syntax refuses.
C23_SearchNeverRaises ==
    (found.kind # "none" /\ ~ReadBlocked)
    => /\ found.kind = "results"
       /\ \A i \in 1..Len(Sanitize(query.text)) :
              Sanitize(query.text)[i] \notin Keywords \cup {"''"}

\* C24: the results of a search are in the order of their relevance, the
\* highest first; results of equal relevance are in the order of their
\* coverage, the highest first, and then of their segment_id, the lowest
\* first.
C24_RankingOrder ==
    (found.kind = "results" /\ query.text # <<>>)
    => \A i, j \in 1..Len(found.rows) :
          i < j
          => LET a == found.rows[i]
                 b == found.rows[j]
             IN  \/ Relevance(a.segment_id) > Relevance(b.segment_id)
                 \/ /\ Relevance(a.segment_id) = Relevance(b.segment_id)
                    /\ \/ a.coverage > b.coverage
                       \/ /\ a.coverage = b.coverage
                          /\ a.segment_id < b.segment_id

\* C25: every record a request with a filter gets satisfies the filter, and
\* a request with an empty text and a filter gets exactly the committed
\* records that satisfy it.
C25_FiltersConjunction ==
    (found.kind # "none" /\ query.min_coverage # NULL /\ ~ReadBlocked)
    => /\ found.kind = "results" \/ query.text # <<>>
       /\ \A i \in 1..Len(found.rows) :
              found.rows[i].coverage # NULL
              /\ found.rows[i].coverage >= query.min_coverage
       /\ query.text = <<>>
            => {found.rows[i].segment_id : i \in 1..Len(found.rows)}
               = {id \in Range(segments) :
                     /\ CoverageOf(ReachOf(id)) # NULL
                     /\ CoverageOf(ReachOf(id)) >= query.min_coverage}

\* C26: the buffer of a run that is in its fetch loop holds fewer than
\* BATCH_SIZE records, and the batch the final flush hands to the store
\* holds no more than BATCH_SIZE.
C26_BoundedBatches ==
    \A p \in Procs :
        /\ pc[p] = "a_loop" => Len(batch_segments[p]) < BATCH_SIZE
        /\ pc[p] = "a_finish" => Len(batch_segments[p]) <= BATCH_SIZE

\* C27: in a run of the adapter that meets no error, the records of the
\* pages fetched so far are, each once and in their order, the rows of the
\* open transaction followed by the buffer; the commit makes exactly these
\* the catalog, whatever BATCH_SIZE is, and the run reports their number as
\* total_segments.
C27_BatchBoundaryNeutral ==
    [][\A p \in Procs :
         (entry = "adapter" /\ ~Unrecoverable(p))
         => /\ (pc[p] = "a_loop" /\ pc'[p] = "a_loop" /\ last'[p].status = "200")
               => tx'.segments \o batch_segments'[p]
                      = SubSeq(remote.cat, 1, after_cursor'[p])
            /\ (tx_end[p] # "commit" /\ tx_end'[p] = "commit")
               => /\ segments' = tx.segments \o batch_segments[p]
                  /\ \A i, j \in 1..Len(segments') :
                         segments'[i] = segments'[j] => i = j
                  /\ total_processed'[p] = Len(segments')
            /\ (pc[p] = "a_record" /\ pc'[p] = "idle")
               => LastRow(sync_status').total_segments = Len(segments)]_vars

\* a run committed a catalog of more than one batch
C27_Witness ==
    /\ entry = "adapter"
    /\ pc[1] = "a_record"
    /\ ~Unrecoverable(1)
    /\ tx_end[1] = "commit"
    /\ Len(segments) > BATCH_SIZE
    /\ segments = remote.cat
    /\ total_processed[1] = Len(segments)

\* C28: a run of the script whose fetch returned no segment opens no
\* transaction: it goes to the handler of run_sync with the catalog and the
\* lock as they are, and the handler seals the row of the run as failed,
\* with no segment counted, over the same catalog.
C28_EmptyFetchKeepsCatalog ==
    [][\A p \in Procs :
         /\ (pc[p] = "s_check" /\ all_segments[p] = <<>> /\ pc'[p] # "s_check")
            => /\ pc'[p] \in {"s_except", "s_cancel"}
               /\ exc'[p] = "No segments retrieved" \/ pc'[p] = "s_cancel"
               /\ tx_end'[p] = tx_end[p]
               /\ lock' = lock
               /\ tx' = tx
               /\ liveramp_segments' = liveramp_segments
         /\ (/\ pc[p] = "s_except"
             /\ exc[p] = "No segments retrieved"
             /\ pc'[p] = "idle")
            => /\ liveramp_segments' = liveramp_segments
               /\ LastRow(liveramp_sync_status').status = "failed"
               /\ LastRow(liveramp_sync_status').total_segments = 0
               /\ LastRow(liveramp_sync_status).status = "in_progress"]_vars

\* the remote catalog had become empty after a sync: the run that fetched
\* nothing was sealed as failed and the catalog of the sync before is kept
C28_Witness ==
    /\ entry = "script"
    /\ pc[1] = "idle"
    /\ result[1] = "failed"
    /\ remote.cat = <<>>
    /\ liveramp_segments # <<>>
    /\ LastRow(liveramp_sync_status).status = "failed"
    /\ LastRow(liveramp_sync_status).error_message = "No segments retrieved"

\* the row i of the script log is there with the status st
RowIs(i, st) ==
    /\ Len(liveramp_sync_status) >= i
    /\ liveramp_sync_status[i].status \in st

\* C29: every row of the sync log that a run wrote as in_progress goes on
\* to be success, failed or cancelled, provided the fetch loop of the run
\* ends; and when the process has exited no row is in_progress.
C29_RowEventuallySealed ==
    /\ \A i \in 1..MaxRuns : RowIs(i, {"in_progress"}) ~> RowIs(i, Sealed)
    /\ [](pc[1] = "idle" => \A i \in 1..MaxRuns : ~RowIs(i, {"in_progress"}))

\* two processes have exited, one by the handler of run_sync and one by the
\* handler of the interrupt: both rows are sealed
C29_Witness ==
    /\ pc[1] = "idle"
    /\ RowIs(1, {"failed"})
    /\ RowIs(2, {"cancelled"})

\* C30: the row that any of the three store paths builds of a record, or
\* the exception it ends with, is the one _store_segments_incremental
\* builds of the same record: same reach_count, has_pricing, cpm_price and
\* categories.
C30_StorePathsAgree ==
    out.kind \in {"row", "raised"} => out = StoreRow(raw)

====
